---- MODULE Spec2Model ----
(***************************************************************************)
(* A model of sbml2dae's Matlab exporter (src/src/sbml2dae/matlab.py):     *)
(* the token-level translator string2matlab, the state-reference extractor *)
(* get_states, the dependency resolver write_local_states and the two      *)
(* export operations export_class and export_example.                      *)
(*                                                                         *)
(* A formula is a sequence of one-character strings, so that tokenizing,   *)
(* translating and extracting references are computed, not assumed.        *)
(***************************************************************************)
EXTENDS Integers, Sequences, FiniteSets, TLC

VARIABLES
    states,        \* dae.get_states(): sequence of [id, type, equation, initialCondition]
    parameters,    \* dae.get_parameters(): sequence of [id, value]
    op,            \* the operation running: "export_class", "export_example", "call"
    pc,            \* position in the running operation
    f,             \* the output handle: "none", "open", "closed"
    lines,         \* what has been written to f, in order
    known_states,  \* write_local_states: states already defined in the file
    i,             \* the 1-based position counter of the section being written
    idx,           \* position of the for loop over dae.get_states()
    scans,         \* iterations of the while loop started in this call (saturating)
    history,       \* history variable: for each entry of known_states, the scan that
                   \* appended it (0: before the scans) and the declaration it came from
    caller,        \* who called write_local_states
    error,         \* the exception that ended the operation, or "none"
    math_expr,     \* argument of a direct call of string2matlab / get_states
    result         \* what the direct call returned

vars == <<states, parameters, op, pc, f, lines, known_states, i, idx, scans,
          history, caller, error, math_expr, result>>

(***************************************************************************)
(* Bounds.                                                                 *)
(***************************************************************************)
MaxStates == 3
MaxLen == 4

(***************************************************************************)
(* Characters and strings.                                                 *)
(***************************************************************************)
Letter == {"a", "b", "c", "d", "k", "p", "u", "w", "x", "y", "z"}
Digit == {"1", "2"}
Space == {" "}
OpChar == {"*", "/", "^", "+", "-", "(", ")", ","}
DoubleOps == {<<"*", "*">>, <<"/", "/">>}

StringsUpTo(A, n) == UNION {[1..m -> A] : m \in 0..n}

Range(s) == {s[n] : n \in DOMAIN s}

(***************************************************************************)
(* tokenize (Python's standard library, used at matlab.py:364 and :392) on *)
(* a one-line formula over the characters above.                           *)
(***************************************************************************)
Tok(type, string) == [type |-> type, string |-> string]

RECURSIVE SpanEnd(_, _, _)
SpanEnd(s, n, C) ==
    IF n <= Len(s) /\ s[n] \in C THEN SpanEnd(s, n + 1, C) ELSE n

RECURSIVE Lex(_, _, _)
Lex(s, n, parenlev) ==
    IF n > Len(s) THEN [toks |-> <<>>, parenlev |-> parenlev]
    ELSE IF s[n] \in Space THEN Lex(s, n + 1, parenlev)
    ELSE IF s[n] \in Letter THEN
        LET e == SpanEnd(s, n, Letter \cup Digit)
            r == Lex(s, e, parenlev)
        IN  [r EXCEPT !.toks = <<Tok("NAME", SubSeq(s, n, e - 1))>> \o @]
    ELSE IF s[n] \in Digit THEN
        LET e == SpanEnd(s, n, Digit)
            r == Lex(s, e, parenlev)
        IN  [r EXCEPT !.toks = <<Tok("NUMBER", SubSeq(s, n, e - 1))>> \o @]
    ELSE IF n < Len(s) /\ <<s[n], s[n + 1]>> \in DoubleOps THEN
        LET r == Lex(s, n + 2, parenlev)
        IN  [r EXCEPT !.toks = <<Tok("OP", SubSeq(s, n, n + 1))>> \o @]
    ELSE
        LET lev == IF s[n] = "(" THEN parenlev + 1
                   ELSE IF s[n] = ")" THEN parenlev - 1
                   ELSE parenlev
            r == Lex(s, n + 1, lev)
        IN  [r EXCEPT !.toks = <<Tok("OP", <<s[n]>>)>> \o @]

Encoding == Tok("ENCODING", <<"u", "t", "f", "-", "8">>)

\* [toks, raises]: the tokens the generator yields and whether it then
\* raises TokenError (EOF inside an unbalanced parenthesis).
Tokenize(s) ==
    LET indent == SpanEnd(s, 1, Space) - 1
    IN  IF indent = Len(s)
        THEN [toks |-> <<Encoding, Tok("ENDMARKER", <<>>)>>, raises |-> FALSE]
        ELSE LET r == Lex(s, indent + 1, 0)
                 head == <<Encoding>> \o
                         (IF indent > 0
                          THEN <<Tok("INDENT", SubSeq(s, 1, indent))>>
                          ELSE <<>>) \o r.toks
             IN  IF r.parenlev # 0
                 THEN [toks |-> head, raises |-> TRUE]
                 ELSE [toks |-> head \o <<Tok("NEWLINE", <<>>)>> \o
                                (IF indent > 0 THEN <<Tok("DEDENT", <<>>)>>
                                 ELSE <<>>) \o <<Tok("ENDMARKER", <<>>)>>,
                       raises |-> FALSE]

(***************************************************************************)
(* string2matlab (matlab.py:351-382).                                      *)
(***************************************************************************)
\* matlab.py:360-362
ParameterIds(params) == [n \in DOMAIN params |-> params[n].id]

\* TokenImage with the elementwise rule keyed on the operator's first character.
TokenImageByFirstChar(toknum, tokval, params) ==
    IF toknum = "ENCODING" THEN <<>>
    ELSE IF toknum = "NAME" /\ tokval \in Range(params) THEN <<"p", ".">> \o tokval
    ELSE IF toknum = "OP" /\ tokval[1] \in {"*", "/", "^"} THEN <<".">> \o tokval
    ELSE IF toknum = "OP" /\ tokval \in {<<"+">>, <<"-">>} THEN <<" ">> \o tokval \o <<" ">>
    ELSE tokval

\* matlab.py:367-380: what one token adds to result.
TokenImage(toknum, tokval, params) ==
    IF toknum = "ENCODING" THEN <<>>
    ELSE IF toknum = "NAME" /\ tokval \in Range(params) THEN <<"p", ".">> \o tokval
    ELSE IF toknum = "OP" /\ tokval \in {<<"*">>, <<"/">>, <<"^">>} THEN <<".">> \o tokval
    ELSE IF toknum = "OP" /\ tokval \in {<<"+">>, <<"-">>} THEN <<" ">> \o tokval \o <<" ">>
    ELSE tokval

RECURSIVE TranslateLoop(_, _, _)
TranslateLoop(toks, params, acc) ==
    IF toks = <<>> THEN acc
    ELSE TranslateLoop(Tail(toks), params,
                       acc \o TokenImage(Head(toks).type, Head(toks).string, params))

\* [result, raises]: the string returned, unless the token generator raised.
string2matlab(expr, params) ==
    LET g == Tokenize(expr)
    IN  [result |-> TranslateLoop(g.toks, ParameterIds(params), <<>>),
         raises |-> g.raises]

(***************************************************************************)
(* get_states (matlab.py:384-398).                                         *)
(***************************************************************************)
\* matlab.py:388-390
StateIds(sts) == [n \in DOMAIN sts |-> sts[n].id]

\* matlab.py:395
IsStateToken(toknum, tokval, ids) == toknum = "NAME" /\ tokval \in Range(ids)

\* ExtractLoop that drops an id already in the result.
RECURSIVE ExtractLoopDedup(_, _, _)
ExtractLoopDedup(toks, ids, acc) ==
    IF toks = <<>> THEN acc
    ELSE ExtractLoopDedup(Tail(toks), ids,
                          IF IsStateToken(Head(toks).type, Head(toks).string, ids)
                             /\ Head(toks).string \notin Range(acc)
                          THEN Append(acc, Head(toks).string) ELSE acc)

\* matlab.py:394-396
RECURSIVE ExtractLoop(_, _, _)
ExtractLoop(toks, ids, acc) ==
    IF toks = <<>> THEN acc
    ELSE ExtractLoop(Tail(toks), ids,
                     IF IsStateToken(Head(toks).type, Head(toks).string, ids)
                     THEN Append(acc, Head(toks).string) ELSE acc)

\* [result, raises]
get_states(expr, sts) ==
    LET g == Tokenize(expr)
    IN  [result |-> ExtractLoop(g.toks, StateIds(sts), <<>>),
         raises |-> g.raises]

(***************************************************************************)
(* The dae model handed to the exporter (sbml2dae.dae_model, read through  *)
(* get_states / get_parameters).                                           *)
(***************************************************************************)
State(id, type, equation, ic) ==
    [id |-> id, type |-> type, equation |-> equation, initialCondition |-> ic]

Parameter(id) == [id |-> id, value |-> 1]

(***************************************************************************)
(* Direct calls of the two pure functions, on every formula of at most     *)
(* MaxLen characters over CallAlphabet and on the documented examples.     *)
(***************************************************************************)
CallAlphabet == {"a", "k", "1", "*", "+", "(", ")", " "}

\* "a*b+c", "a1+1", "x + 2*y - z", "k*a-a/k^2"
ExampleElementwise == <<"a", "*", "b", "+", "c">>
ExampleEndToEnd == <<"a", "1", "+", "1">>
ExampleReferences == <<"x", " ", "+", " ", "2", "*", "y", " ", "-", " ", "z">>
ExampleOperators == <<"k", "*", "a", "-", "a", "/", "k", "^", "2">>

CallDaes ==
    { [states |-> <<State(<<"a">>, "ODE", <<"1">>, 1)>>,
       parameters |-> <<Parameter(<<"k">>)>>],
      [states |-> <<State(<<"a">>, "ODE", <<"1">>, 1),
                    State(<<"a", "a">>, "ASSIGMENT", <<"a">>, 2)>>,
       parameters |-> <<Parameter(<<"k">>), Parameter(<<"k", "1">>)>>] }

CallInit ==
    /\ \/ /\ \E d \in CallDaes : states = d.states /\ parameters = d.parameters
          /\ math_expr \in StringsUpTo(CallAlphabet, MaxLen) \cup {ExampleOperators}
       \/ /\ states = <<State(<<"b">>, "ODE", <<"1">>, 1), State(<<"c">>, "ODE", <<"1">>, 2)>>
          /\ parameters = <<Parameter(<<"a">>)>>
          /\ math_expr = ExampleElementwise
       \/ /\ states = <<State(<<"a", "1">>, "ASSIGMENT", <<"1">>, 1)>>
          /\ parameters = <<>>
          /\ math_expr = ExampleEndToEnd
       \/ /\ states = [n \in 1..4 |->
                         State(<< <<"x">>, <<"y">>, <<"z">>, <<"w">> >>[n], "ODE", <<"1">>, n)]
          /\ parameters = <<>>
          /\ math_expr = ExampleReferences
    /\ op = "call"
    /\ pc = "call"
    /\ f = "none"
    /\ lines = <<>>
    /\ known_states = <<>>
    /\ i = 1
    /\ idx = 1
    /\ scans = 0
    /\ history = <<>>
    /\ caller = "none"
    /\ error = "none"
    /\ result = <<>>

CallString2Matlab ==
    /\ op = "call" /\ pc = "call"
    /\ LET r == string2matlab(math_expr, parameters)
       IN  IF r.raises
           THEN pc' = "raised" /\ error' = "TokenError" /\ result' = result
           ELSE pc' = "string2matlab" /\ error' = error /\ result' = r.result
    /\ UNCHANGED <<states, parameters, op, f, lines, known_states, i, idx, scans, history,
                   caller, math_expr>>

CallGetStates ==
    /\ op = "call" /\ pc = "call"
    /\ LET r == get_states(math_expr, states)
       IN  IF r.raises
           THEN pc' = "raised" /\ error' = "TokenError" /\ result' = result
           ELSE pc' = "get_states" /\ error' = error /\ result' = r.result
    /\ UNCHANGED <<states, parameters, op, f, lines, known_states, i, idx, scans, history,
                   caller, math_expr>>

CallNext == CallString2Matlab \/ CallGetStates

CallSpec == CallInit /\ [][CallNext]_vars

(***************************************************************************)
(* The models exported: 1..MaxStates states named a, b, c, ... in          *)
(* declaration order (optionally with the last id repeating the first),    *)
(* each an ODE / ALGEBRAIC state or an ASSIGMENT state whose equation      *)
(* names no state, one state, two states, an unknown name, or is           *)
(* lexically malformed; one parameter k.                                   *)
(***************************************************************************)
IdLetters == <<"a", "b", "c", "d", "w", "x", "y", "z">>
IdOf(n) == <<IdLetters[n]>>

\* "k*a", "(a"
OdeEquations == {<<"k", "*", "a">>, <<"(", "a">>}

\* "k^2", "ab", "(a", "a+b", and each id alone
AssignmentEquations(n) ==
    {<<"k", "^", "2">>, <<"a", "b">>, <<"(", "a">>, <<"a", "+", "b">>}
        \cup {IdOf(m) : m \in 1..n}

Kinds(n) ==
    ({"ODE", "ALGEBRAIC"} \X OdeEquations) \cup ({"ASSIGMENT"} \X AssignmentEquations(n))

Dae(n, kinds, repeat) ==
    [m \in 1..n |->
        State(IF repeat /\ m = n /\ n > 1 THEN IdOf(1) ELSE IdOf(m),
              kinds[m][1], kinds[m][2], m)]

Init ==
    /\ \E n \in 1..MaxStates, repeat \in BOOLEAN :
          \E kinds \in [1..n -> Kinds(n)] : states = Dae(n, kinds, repeat)
    /\ parameters = <<Parameter(<<"k">>)>>
    /\ op \in {"export_class", "export_example"}
    /\ pc = "start"
    /\ f = "none"
    /\ lines = <<>>
    /\ known_states = <<>>
    /\ i = 1
    /\ idx = 1
    /\ scans = 0
    /\ history = <<>>
    /\ caller = "none"
    /\ error = "none"
    /\ math_expr = <<>>
    /\ result = <<>>

\* One written line: the section it belongs to, the state or parameter it
\* is about, the position index printed in it (0: none) and its text.
Line(sec, id, n, text) == [sec |-> sec, id |-> id, i |-> n, text |-> text]

ScanCap == MaxStates + 1

(***************************************************************************)
(* export_example (matlab.py:16-57).                                       *)
(***************************************************************************)
ExportExampleOpen ==
    /\ op = "export_example" /\ pc = "start"
    /\ f' = "open"
    /\ pc' = "example_body"
    /\ UNCHANGED <<states, parameters, op, lines, known_states, i, idx, scans, history,
                   caller, error, math_expr, result>>

ExportExampleWrite ==
    /\ op = "export_example" /\ pc = "example_body"
    /\ lines' = lines \o <<Line("example", <<>>, 0, <<>>)>>
    /\ pc' = "example_close"
    /\ UNCHANGED <<states, parameters, op, f, known_states, i, idx, scans, history,
                   caller, error, math_expr, result>>

ExportExampleClose ==
    /\ op = "export_example" /\ pc = "example_close"
    /\ f' = "closed"
    /\ pc' = "done"
    /\ UNCHANGED <<states, parameters, op, lines, known_states, i, idx, scans, history,
                   caller, error, math_expr, result>>

(***************************************************************************)
(* export_class (matlab.py:59-84) and the sections it writes.              *)
(***************************************************************************)
ExportClassOpen ==
    /\ op = "export_class" /\ pc = "start"
    /\ f' = "open"
    /\ pc' = "write_class_header"
    /\ UNCHANGED <<states, parameters, op, lines, known_states, i, idx, scans, history,
                   caller, error, math_expr, result>>

\* write_class_header, write_constructor, write_default_parameters
\* (matlab.py:69-71, 86-132): fixed text and one line per parameter.
WriteClassHeader ==
    /\ op = "export_class" /\ pc = "write_class_header"
    /\ lines' = lines \o <<Line("classdef", <<>>, 0, <<>>)>> \o
                [n \in DOMAIN parameters |-> Line("p", parameters[n].id, 0, <<>>)]
    /\ pc' = "write_initial_conditions"
    /\ UNCHANGED <<states, parameters, op, f, known_states, i, idx, scans, history,
                   caller, error, math_expr, result>>

\* matlab.py:140-145
RECURSIVE InitialConditionRows(_)
InitialConditionRows(sts) ==
    IF sts = <<>> THEN <<>>
    ELSE (IF Head(sts).type = "ODE"
          THEN <<Line("x0", Head(sts).id, 0, <<Head(sts).initialCondition>>)>>
          ELSE IF Head(sts).type = "ALGEBRAIC"
          THEN <<Line("x0", Head(sts).id, 0, <<Head(sts).initialCondition>>)>>
          ELSE <<>>) \o InitialConditionRows(Tail(sts))

WriteInitialConditions ==
    /\ op = "export_class" /\ pc = "write_initial_conditions"
    /\ lines' = lines \o InitialConditionRows(states)
    /\ pc' = "write_mass_matrix"
    /\ UNCHANGED <<states, parameters, op, f, known_states, i, idx, scans, history,
                   caller, error, math_expr, result>>

\* matlab.py:157-162
RECURSIVE MassDiagonal(_)
MassDiagonal(sts) ==
    IF sts = <<>> THEN <<>>
    ELSE (IF Head(sts).type = "ODE" THEN <<1>>
          ELSE IF Head(sts).type = "ALGEBRAIC" THEN <<0>>
          ELSE <<>>) \o MassDiagonal(Tail(sts))

\* matlab.py:164-172: row n (0-based) is n zeros, m[n], i_max - n - 1 zeros.
MassRows(m) ==
    [r \in 1..Len(m) |->
        Line("M", <<>>, 0,
             [c \in 1..(r - 1) |-> 0] \o <<m[r]>> \o [c \in 1..(Len(m) - (r - 1) - 1) |-> 0])]

\* write_mass_matrix and write_simulation_options (matlab.py:73-74).
WriteMassMatrix ==
    /\ op = "export_class" /\ pc = "write_mass_matrix"
    /\ lines' = lines \o MassRows(MassDiagonal(states)) \o <<Line("opts", <<>>, 0, <<>>)>>
    /\ pc' = "write_ode"
    /\ UNCHANGED <<states, parameters, op, f, known_states, i, idx, scans, history,
                   caller, error, math_expr, result>>

(***************************************************************************)
(* write_local_states (matlab.py:192-230), the dependency resolver.        *)
(***************************************************************************)
\* matlab.py:203
IsIndexed(state) == state.type \in {"ODE", "ALGEBRAIC"}

\* matlab.py:201-208: [lines, known, i] after the loop, started at counter n;
\* decls are the positions in dae.get_states() of the states in known.
RECURSIVE IndexedStatesLoop(_, _, _)
IndexedStatesLoop(sts, m, n) ==
    IF m > Len(sts) THEN [lines |-> <<>>, known |-> <<>>, decls |-> <<>>, i |-> n]
    ELSE IF ~IsIndexed(sts[m]) THEN IndexedStatesLoop(sts, m + 1, n)
    ELSE LET r == IndexedStatesLoop(sts, m + 1, n + 1)
         IN  [lines |-> <<Line("local", sts[m].id, n, <<>>)>> \o r.lines,
              known |-> <<sts[m].id>> \o r.known,
              decls |-> <<m>> \o r.decls,
              i |-> r.i]

\* matlab.py:195-211, entered from write_ode (:250) or write_simout_2_struct (:282).
EnterLocalStates(from) ==
    LET r == IndexedStatesLoop(states, 1, 1)
    IN  /\ lines' = lines \o <<Line(from, <<>>, 0, <<>>)>> \o r.lines
        /\ known_states' = r.known
        /\ history' = [n \in DOMAIN r.decls |-> [scan |-> 0, decl |-> r.decls[n]]]
        /\ i' = r.i
        /\ idx' = 1
        /\ scans' = 0
        /\ caller' = from
        /\ pc' = "while"
        /\ UNCHANGED <<states, parameters, op, f, error, math_expr, result>>

WriteOde == op = "export_class" /\ pc = "write_ode" /\ EnterLocalStates("write_ode")

WriteSimout2Struct ==
    op = "export_class" /\ pc = "write_simout_2_struct"
        /\ EnterLocalStates("write_simout_2_struct")

\* LoopContinues with <= for !=.
LoopContinuesOrEqual(known, states_num) == Len(known) <= states_num

\* matlab.py:213
LoopContinues(known, states_num) == Len(known) # states_num

\* matlab.py:213: the while test; leaving the loop returns to the caller.
WhileTest ==
    /\ op = "export_class" /\ pc = "while"
    /\ IF LoopContinues(known_states, Len(states))
       THEN /\ pc' = "for"
            /\ idx' = 1
            /\ scans' = IF scans < ScanCap THEN scans + 1 ELSE scans
       ELSE /\ pc' = IF caller = "write_ode" THEN "ode_equations" ELSE "save_states"
            /\ UNCHANGED <<idx, scans>>
    /\ UNCHANGED <<states, parameters, op, f, lines, known_states, i, history, caller,
                   error, math_expr, result>>

\* matlab.py:216
IsAssignment(state) == state.type = "ASSIGMENT"

\* AlreadyDefined looking at the last entry only.
AlreadyDefinedLast(id, known) == known # <<>> /\ known[Len(known)] = id

\* matlab.py:220
AlreadyDefined(id, known) == id \in Range(known)

\* AllKnown with any() for all().
AnyKnown(dependencies, known) == \E n \in DOMAIN dependencies : dependencies[n] \in Range(known)

\* matlab.py:225
AllKnown(dependencies, known) == \A n \in DOMAIN dependencies : dependencies[n] \in Range(known)

\* AppendKnown inserting at the front.
PrependKnown(known, id) == <<id>> \o known

\* matlab.py:228
AppendKnown(known, id) == Append(known, id)

\* matlab.py:214-228: one iteration of the for loop, on states[idx].
ForStep ==
    /\ op = "export_class" /\ pc = "for"
    /\ LET state == states[idx]
           next == IF idx < Len(states) THEN "for" ELSE "while"
           dependencies == get_states(state.equation, states)
       IN  IF ~IsAssignment(state) \/ AlreadyDefined(state.id, known_states)
           THEN /\ pc' = next /\ idx' = idx + 1
                /\ UNCHANGED <<lines, known_states, history, error>>
           ELSE IF dependencies.raises
           THEN /\ pc' = "raised" /\ error' = "TokenError"
                /\ UNCHANGED <<lines, known_states, history, idx>>
           ELSE IF AllKnown(dependencies.result, known_states)
           THEN /\ lines' = Append(lines,
                        Line("assign", state.id, 0,
                             string2matlab(state.equation, parameters).result))
                /\ known_states' = AppendKnown(known_states, state.id)
                /\ history' = Append(history, [scan |-> scans, decl |-> idx])
                /\ pc' = next /\ idx' = idx + 1
                /\ UNCHANGED error
           ELSE /\ pc' = next /\ idx' = idx + 1
                /\ UNCHANGED <<lines, known_states, history, error>>
    /\ UNCHANGED <<states, parameters, op, f, i, scans, caller, math_expr, result>>

(***************************************************************************)
(* The rest of write_ode, write_simout_2_struct, write_plot and the close. *)
(***************************************************************************)
\* OdeEquationsLoop advancing the position counter on every state.
RECURSIVE OdeEquationsLoopCountAll(_, _)
OdeEquationsLoopCountAll(sts, n) ==
    IF sts = <<>> THEN [lines |-> <<>>, i |-> n, raises |-> FALSE]
    ELSE IF Head(sts).type = "ODE" \/ Head(sts).type = "ALGEBRAIC" THEN
        LET equation == string2matlab(Head(sts).equation, parameters)
            r == OdeEquationsLoopCountAll(Tail(sts), n + 1)
        IN  IF equation.raises THEN [lines |-> <<>>, i |-> n, raises |-> TRUE]
            ELSE [r EXCEPT !.lines = <<Line("dx", Head(sts).id, n, equation.result)>> \o @]
    ELSE OdeEquationsLoopCountAll(Tail(sts), n + 1)

\* matlab.py:253-267: [lines, i, raises], started at counter n. A line is
\* written for every state before the first whose equation fails to tokenize.
RECURSIVE OdeEquationsLoop(_, _)
OdeEquationsLoop(sts, n) ==
    IF sts = <<>> THEN [lines |-> <<>>, i |-> n, raises |-> FALSE]
    ELSE IF Head(sts).type = "ODE" \/ Head(sts).type = "ALGEBRAIC" THEN
        LET equation == string2matlab(Head(sts).equation, parameters)
            r == OdeEquationsLoop(Tail(sts), n + 1)
        IN  IF equation.raises THEN [lines |-> <<>>, i |-> n, raises |-> TRUE]
            ELSE [r EXCEPT !.lines = <<Line("dx", Head(sts).id, n, equation.result)>> \o @]
    ELSE OdeEquationsLoop(Tail(sts), n)

WriteOdeEquations ==
    /\ op = "export_class" /\ pc = "ode_equations"
    /\ LET r == OdeEquationsLoop(states, 1)
       IN  /\ lines' = lines \o r.lines
           /\ i' = r.i
           /\ IF r.raises
              THEN pc' = "raised" /\ error' = "TokenError"
              ELSE pc' = "write_simout_2_struct" /\ error' = error
    /\ UNCHANGED <<states, parameters, op, f, known_states, idx, scans, history, caller,
                   math_expr, result>>

\* matlab.py:284-308
WriteSaveStates ==
    /\ op = "export_class" /\ pc = "save_states"
    /\ lines' = lines \o [n \in DOMAIN states |-> Line("out", states[n].id, 0, <<>>)]
                      \o [n \in DOMAIN parameters |-> Line("out", parameters[n].id, 0, <<>>)]
    /\ pc' = "write_plot"
    /\ UNCHANGED <<states, parameters, op, f, known_states, i, idx, scans, history,
                   caller, error, math_expr, result>>

\* write_plot and the closing lines (matlab.py:77-80, 310-349).
WritePlot ==
    /\ op = "export_class" /\ pc = "write_plot"
    /\ lines' = lines \o [n \in DOMAIN states |-> Line("plot", states[n].id, n, <<>>)]
    /\ pc' = "close"
    /\ UNCHANGED <<states, parameters, op, f, known_states, i, idx, scans, history,
                   caller, error, math_expr, result>>

\* matlab.py:82
ExportClassClose ==
    /\ op = "export_class" /\ pc = "close"
    /\ f' = "closed"
    /\ pc' = "done"
    /\ UNCHANGED <<states, parameters, op, lines, known_states, i, idx, scans, history,
                   caller, error, math_expr, result>>

Next ==
    \/ ExportExampleOpen \/ ExportExampleWrite \/ ExportExampleClose
    \/ ExportClassOpen \/ WriteClassHeader \/ WriteInitialConditions
    \/ WriteMassMatrix \/ WriteOde \/ WhileTest \/ ForStep \/ WriteOdeEquations
    \/ WriteSimout2Struct \/ WriteSaveStates \/ WritePlot \/ ExportClassClose

Spec == Init /\ [][Next]_vars

(***************************************************************************)
(* Properties of the translator and of the reference extractor.            *)
(***************************************************************************)
\* The formula's tokens as the design names them: every token the tokenizer
\* yields except the encoding marker it starts with.
FormulaTokens(expr) == SelectSeq(Tokenize(expr).toks, LAMBDA t : t.type # "ENCODING")

RECURSIVE Concat(_)
Concat(ss) == IF ss = <<>> THEN <<>> ELSE Head(ss) \o Concat(Tail(ss))

ParameterIdSet == {parameters[n].id : n \in DOMAIN parameters}
StateIdSet == {states[n].id : n \in DOMAIN states}

\* The four rewrite rules, one token at a time.
RuleImage(t) ==
    CASE t.type = "NAME" /\ t.string \in ParameterIdSet -> <<"p", ".">> \o t.string
      [] t.type = "OP" /\ Len(t.string) = 1 /\ t.string[1] \in {"*", "/", "^"} ->
            <<".">> \o t.string
      [] t.type = "OP" /\ Len(t.string) = 1 /\ t.string[1] \in {"+", "-"} ->
            <<" ">> \o t.string \o <<" ">>
      [] OTHER -> t.string

\* C4: string2matlab returns the concatenation, in order and with nothing
\* in between, of the images of the formula's tokens under the four rules;
\* "a*b+c" with parameter a gives "p.a.*b + c", "a1+1" without parameters
\* gives "a1 + 1".
C4_TranslateTokenwise ==
    (op = "call" /\ pc = "string2matlab") =>
        /\ LET T == FormulaTokens(math_expr)
           IN  result = Concat([n \in DOMAIN T |-> RuleImage(T[n])])
        /\ (math_expr = ExampleElementwise /\ ParameterIdSet = {<<"a">>}) =>
               result = <<"p", ".", "a", ".", "*", "b", " ", "+", " ", "c">>
        /\ (math_expr = ExampleEndToEnd /\ ParameterIdSet = {}) =>
               result = <<"a", "1", " ", "+", " ", "1">>

C4_Witness ==
    /\ op = "call" /\ pc = "string2matlab"
    /\ math_expr = ExampleOperators
    /\ result = <<"p", ".", "k", ".", "*", "a", " ", "-", " ", "a", ".", "/",
                  "p", ".", "k", ".", "^", "2">>

\* C6: get_states returns, in encounter order and with repeats, exactly the
\* name tokens whose text is a state id; "x + 2*y - z" with states x, y, z,
\* w gives [x, y, z].
C6_ReferencesExact ==
    (op = "call" /\ pc = "get_states") =>
        /\ LET S == SelectSeq(FormulaTokens(math_expr),
                              LAMBDA t : t.type = "NAME" /\ t.string \in StateIdSet)
           IN  result = [n \in DOMAIN S |-> S[n].string]
        /\ math_expr = ExampleReferences => result = << <<"x">>, <<"y">>, <<"z">> >>
        /\ math_expr = <<"a", "*", "a">> => result = << <<"a">>, <<"a">> >>
        /\ math_expr = <<"a", "a", "+", "k">> =>
               result = IF <<"a", "a">> \in StateIdSet THEN << <<"a", "a">> >> ELSE <<>>

C6_Witness ==
    /\ op = "call" /\ pc = "get_states"
    /\ math_expr = ExampleReferences
    /\ <<"w">> \in StateIdSet
    /\ result = << <<"x">>, <<"y">>, <<"z">> >>

(***************************************************************************)
(* Properties of the resolver.                                             *)
(***************************************************************************)
UniqueIds == \A m, n \in DOMAIN states : states[m].id = states[n].id => m = n

AssignmentDecls == {n \in DOMAIN states : states[n].type = "ASSIGMENT"}

\* references() is defined for every ASSIGMENT equation.
ReferencesDefined == \A n \in AssignmentDecls : ~Tokenize(states[n].equation).raises

References(n) == Range(get_states(states[n].equation, states).result)

\* The ASSIGMENT-to-ASSIGMENT reference graph, on ids: for each ASSIGMENT
\* id, the ASSIGMENT ids that the states declared with it reference.
AssignmentIds == {states[n].id : n \in AssignmentDecls}
ReferenceGraph ==
    [id \in AssignmentIds |->
        UNION {References(n) : n \in {m \in AssignmentDecls : states[m].id = id}}
            \cap AssignmentIds]

RECURSIVE ReachableFrom(_, _, _)
ReachableFrom(G, S, n) ==
    IF n = 0 THEN S
    ELSE ReachableFrom(G, S \cup UNION {G[id] : id \in S}, n - 1)

ReachesItself ==
    LET G == ReferenceGraph
    IN  \E id \in DOMAIN G : id \in ReachableFrom(G, G[id], Cardinality(DOMAIN G))

Acyclic == ReferencesDefined /\ ~ReachesItself
Cyclic == ReferencesDefined /\ ReachesItself

\* Entries of known_states appended by the scans, by position.
AppendedPositions == {p \in DOMAIN known_states : history[p].scan > 0}

\* Every entry appended by a scan stands strictly after every id that
\* get_states finds in the equation of the declaration it came from.
ReferencesStandBefore ==
    \A p \in AppendedPositions :
        \A r \in References(history[p].decl) :
            \E q \in 1..(p - 1) : known_states[q] = r

\* C1: in an acyclic model every ASSIGMENT state stands in known_states
\* strictly after every state its equation references. (The consequent is
\* written first: it is the cheaper side to evaluate.)
C1_TopologicalOrder ==
    ReferencesStandBefore \/ ~(op = "export_class" /\ Acyclic)

\* An ASSIGMENT state that references another ASSIGMENT state declared
\* after it has been appended, in a later scan than its reference.
C1_Witness ==
    /\ op = "export_class" /\ Acyclic
    /\ \E p \in AppendedPositions :
          \E q \in AppendedPositions :
              /\ known_states[q] \in References(history[p].decl)
              /\ history[q].decl > history[p].decl
              /\ history[q].scan < history[p].scan

ResolverReturned == op = "export_class" /\ pc \in {"ode_equations", "save_states"}

\* known_states never holds an id twice, and when the resolver returns it
\* holds every state id once.
OrderIsPermutation ==
    /\ \A p, q \in DOMAIN known_states : known_states[p] = known_states[q] => p = q
    /\ ResolverReturned =>
           /\ Len(known_states) = Len(states)
           /\ Range(known_states) = StateIdSet

\* C2: with unique ids and an acyclic graph, the resolved list never holds
\* an id twice and the final order is a permutation of the state ids.
C2_Permutation ==
    OrderIsPermutation \/ ~(op = "export_class" /\ UniqueIds /\ Acyclic)

C2_Witness ==
    /\ ResolverReturned /\ UniqueIds /\ Acyclic
    /\ Len(states) = MaxStates
    /\ Cardinality(AssignmentDecls) >= 2
    /\ \E n \in DOMAIN states : IsIndexed(states[n])
    /\ scans >= 2

\* Positions of known_states in the order of declaration of their ids.
InDeclarationOrder(P) ==
    \A p, q \in P : p < q => history[p].decl < history[q].decl

\* The ids of the lines that define a local variable, in the order written.
LocalDefinitions ==
    LET L == SelectSeq(lines, LAMBDA l : l.sec \in {"local", "assign"})
    IN  [n \in DOMAIN L |-> L[n].id]

\* C5: the order is a function of the declared state list: the two runs of
\* the resolver in one export (write_ode, write_simout_2_struct) write the
\* same sequence; ODE / ALGEBRAIC ids stand first, in declaration order;
\* ASSIGMENT ids appended by the same scan stand in declaration order.
C5_Deterministic ==
    op = "export_class" =>
        /\ pc = "ode_equations" => LocalDefinitions = known_states
        /\ pc = "save_states" => LocalDefinitions = known_states \o known_states
        /\ pc \in {"while", "for", "ode_equations", "save_states"} =>
               LET indexed == SelectSeq(states, LAMBDA st : st.type \in {"ODE", "ALGEBRAIC"})
               IN  /\ Len(known_states) >= Len(indexed)
                   /\ \A n \in DOMAIN indexed :
                          known_states[n] = indexed[n].id /\ history[n].scan = 0
                   /\ \A p \in DOMAIN known_states : p > Len(indexed) => history[p].scan > 0
        /\ \A n \in 1..ScanCap :
               InDeclarationOrder({p \in DOMAIN known_states : history[p].scan = n})

\* The second run has returned, two ASSIGMENT states were appended by one
\* scan and another by a later scan.
C5_Witness ==
    /\ op = "export_class" /\ pc = "save_states"
    /\ \E p, q, r \in AppendedPositions :
          p < q /\ history[p].scan = history[q].scan /\ history[r].scan > history[q].scan

NumAssignments == Cardinality(AssignmentDecls)

\* The resolver has not failed, every completed scan has appended at least
\* one state, and no more than n scans are started, n the number of
\* ASSIGMENT states, after which every state is resolved.
ScansMakeProgress ==
    /\ scans <= NumAssignments
    /\ pc = "while" /\ scans > 0 => \E p \in DOMAIN known_states : history[p].scan = scans
    /\ pc = "while" /\ scans = NumAssignments => ~LoopContinues(known_states, Len(states))
    /\ pc = "raised" => caller = "write_ode" /\ Len(known_states) = Len(states)

\* C10: with unique ids and an acyclic graph the resolver terminates
\* successfully, each full scan resolving at least one state, within n scans.
C10_Terminates ==
    ScansMakeProgress \/ ~(op = "export_class" /\ UniqueIds /\ Acyclic)

\* n scans were needed for n = MaxStates ASSIGMENT states.
C10_Witness ==
    /\ ResolverReturned /\ UniqueIds /\ Acyclic
    /\ NumAssignments = MaxStates
    /\ scans = NumAssignments

(***************************************************************************)
(* Properties of the emitted sections.                                     *)
(***************************************************************************)
Section(sec) == SelectSeq(lines, LAMBDA l : l.sec = sec)

\* The states that own a position of the state vector x, in declaration order.
PositionedStates == SelectSeq(states, LAMBDA st : st.type \in {"ODE", "ALGEBRAIC"})

\* C9: position n of the state vector is the same state in every section:
\* the n-th ODE / ALGEBRAIC state in declaration order is read as x(n,:),
\* has its equation in dx(n,1), its initial condition in row n of x0 and
\* its mass entry (1 for ODE, 0 for ALGEBRAIC) on the diagonal of row n of
\* M; ASSIGMENT states take no position, and the positions are 1..k.
C9_PositionsAgree ==
    (op = "export_class" /\ pc \in {"write_simout_2_struct", "done"}) =>
        LET P == PositionedStates
            k == Len(P)
            local == Section("local")
            dx == Section("dx")
            x0 == Section("x0")
            M == Section("M")
        IN  /\ Len(local) = (IF pc = "done" THEN 2 * k ELSE k)
            /\ Len(dx) = k /\ Len(x0) = k /\ Len(M) = k
            /\ pc = "write_simout_2_struct" => i = k + 1
            /\ \A n \in 1..k :
                  /\ local[n].id = P[n].id /\ local[n].i = n
                  /\ pc = "done" => local[k + n].id = P[n].id /\ local[k + n].i = n
                  /\ dx[n].id = P[n].id /\ dx[n].i = n
                  /\ dx[n].text = string2matlab(P[n].equation, parameters).result
                  /\ x0[n].id = P[n].id /\ x0[n].text = <<P[n].initialCondition>>
                  /\ M[n].text = [c \in 1..k |->
                                     IF c # n THEN 0
                                     ELSE IF P[n].type = "ODE" THEN 1 ELSE 0]

\* An export has finished for a model where an ASSIGMENT state is declared
\* before an ALGEBRAIC state, itself declared before an ODE state.
C9_Witness ==
    /\ op = "export_class" /\ pc = "done"
    /\ \E a, b, c \in DOMAIN states :
          /\ a < b /\ b < c
          /\ states[a].type = "ASSIGMENT"
          /\ states[b].type = "ALGEBRAIC"
          /\ states[c].type = "ODE"

(***************************************************************************)
(* Properties the design states and the code does not have.                *)
(***************************************************************************)
\* A full scan has just ended without appending anything.
IdleScanEnded ==
    /\ pc = "while" /\ scans > 0
    /\ \A p \in DOMAIN known_states : history[p].scan # scans

\* C3: on a cyclic reference graph, a full scan that resolves nothing ends
\* the resolver in the error CyclicDependency: the loop is not entered again.
C3_CycleDetected ==
    (op = "export_class" /\ IdleScanEnded /\ Cyclic) =>
        (pc = "raised" /\ error = "CyclicDependency")

HasUnknownName(expr) ==
    \E t \in Range(FormulaTokens(expr)) :
        t.type = "NAME" /\ t.string \notin ParameterIdSet \cup StateIdSet

\* C7: an ASSIGMENT state whose equation holds a name that is neither a
\* parameter id nor a state id is never appended to the order, and its
\* export does not complete.
C7_UnknownNameNeverResolved ==
    op = "export_class" =>
        /\ \A p \in AppendedPositions : ~HasUnknownName(states[history[p].decl].equation)
        /\ pc = "done" =>
               \A n \in AssignmentDecls : ~HasUnknownName(states[n].equation)

\* C8: in every terminal state of an export the output handle is closed.
C8_HandleReleased == pc \in {"done", "raised"} => f = "closed"

====
